---- MODULE Spec2Model ----
(***************************************************************************)
(* A state-machine model of the scene composer (Source/SceneManager.cpp)   *)
(* and of the view controller (Source/ViewManager.cpp).                    *)
(*                                                                         *)
(* Numbers.  The program computes in float.  The model computes in exact   *)
(* integers: colours, UV scales and material components are hundredths     *)
(* (0.2f is 20), camera vectors are thousandths (0.5f is 500), angles are  *)
(* whole degrees and the clock counts whole seconds.                       *)
(***************************************************************************)
EXTENDS Integers, Sequences, FiniteSets, TLC

NULL == "NULL"

\* ------------------------------------------------------------------------
\* Bounds of the model
\* ------------------------------------------------------------------------

\* how many successful texture registrations a run may make
MaxTextures == 2

\* how many texture names glGenTextures may hand out in a run
MaxGen == 4

\* how many times DefineObjectMaterials may run
MaxDefines == 1

\* how many textures the run that fills the catalog may load
MaxLoads == 17

\* ------------------------------------------------------------------------
\* Input sets
\* ------------------------------------------------------------------------

\* image files by what stbi_load makes of them: a file that does not decode,
\* and files of one, two, three and four channels
Files == {"textures/missing.png", "textures/grey.png", "textures/greyalpha.png",
          "textures/brick.jpg", "textures/sand.png"}

TextureTags == {"t", "u"}

\* "default" is the tag RenderScene asks for that DefineObjectMaterials
\* never defines
MaterialTags == {"plastic", "stone", "default"}

Colors == {<<100, 100, 100, 100>>, <<54, 81, 94, 100>>}

UVScales == {<<100, 100>>, <<30, 20>>}

VARIABLES
    m_pShaderManager,   \* NULL or "ShaderManager": the sink the composer was given
    m_textureIDs,       \* the registered textures, in registration order
    m_loadedTextures,   \* how many textures are registered
    m_objectMaterials,  \* the material catalog
    uniforms,           \* the shader uniform sink: key -> value
    glGenCount,         \* texture names handed out by glGenTextures so far
    glTextureUnits,     \* GL state: texture unit -> texture bound to GL_TEXTURE_2D
    glActiveTexture,    \* GL state: the active texture unit
    stbiLiveImages,     \* decoded images not given back to stbi_image_free
    crashed,            \* a null pointer was dereferenced
    lastCall,           \* the last operation called: [op, tag, ret, out]
    successfulLoads,    \* how many CreateGLTexture calls have returned true
    g_pCamera,          \* NULL or "Camera": the global camera pointer
    camera,             \* the fields of the Camera object
    gLastX,             \* the mouse position of the previous mouse event
    gLastY,
    gFirstMouse,        \* no mouse event has been handled yet
    gDeltaTime,         \* time between the current frame and the last frame
    gLastFrame,         \* the clock reading of the last frame
    bOrthographicProjection,
    glfwTime,           \* glfwGetTime(): seconds since GLFW was initialized
    windowShouldClose,  \* the close flag of the window
    viewHistory         \* the first and last mouse events, the sum of the offsets, and
                        \* the clock reading of the last frame (-1: no frame yet)

sceneVars == <<m_pShaderManager, m_textureIDs, m_loadedTextures, m_objectMaterials,
               uniforms, glGenCount, glTextureUnits, glActiveTexture,
               stbiLiveImages, crashed, lastCall, successfulLoads>>

viewVars == <<g_pCamera, camera, gLastX, gLastY, gFirstMouse, gDeltaTime, gLastFrame,
              bOrthographicProjection, glfwTime, windowShouldClose, viewHistory>>

vars == <<sceneVars, viewVars>>

\* ------------------------------------------------------------------------
\* Vectors and matrices
\* ------------------------------------------------------------------------

Vec3Add(a, b) == <<a[1] + b[1], a[2] + b[2], a[3] + b[3]>>

Vec3Scale(a, k) == <<a[1] * k, a[2] * k, a[3] * k>>

ZeroMat4 == <<<<0, 0, 0, 0>>, <<0, 0, 0, 0>>, <<0, 0, 0, 0>>, <<0, 0, 0, 0>>>>

\* ------------------------------------------------------------------------
\* The shader uniform sink (ShaderManager): named setters on a key -> value map
\* ------------------------------------------------------------------------

g_ModelName == "model"
g_ColorValueName == "objectColor"
g_TextureValueName == "objectTexture"
g_UseTextureName == "bUseTexture"

MaterialKeys == {"material.diffuseColor", "material.specularColor", "material.shininess"}

UniformKeys == {g_ModelName, g_ColorValueName, g_TextureValueName, g_UseTextureName,
                "UVscale", "view", "projection", "viewPosition"} \cup MaterialKeys

\* a freshly linked program has every uniform zero
InitialUniforms ==
    [k \in UniformKeys |->
        CASE k = g_ModelName -> ZeroMat4
          [] k = g_ColorValueName -> <<0, 0, 0, 0>>
          [] k = "UVscale" -> <<0, 0>>
          [] k \in {"material.diffuseColor", "material.specularColor", "viewPosition"} ->
                <<0, 0, 0>>
          [] k = "view" ->
                [kind |-> "zero", eye |-> <<0, 0, 0>>, center |-> <<0, 0, 0>>,
                 up |-> <<0, 0, 0>>]
          [] k = "projection" ->
                [kind |-> "zero", halfHeight |-> 0, halfWidth |-> 0, zoom |-> 0]
          [] OTHER -> 0]

setValue(u, key, value) == [u EXCEPT ![key] = value]

\* setIntValue(key, bool) stores the bool as an int
BoolToInt(b) == IF b THEN 1 ELSE 0


\* ------------------------------------------------------------------------
\* Texture registry
\* ------------------------------------------------------------------------

\* the texture units BindGLTextures has to work with, and the elements of
\* m_textureIDs
NumTextureUnits == 16

\* how many texture units the OpenGL implementation has: the sixteen the
\* program counts on, or more
GLTextureUnitCounts == {NumTextureUnits, 2 * NumTextureUnits}

GLTextureUnits == 0..(2 * NumTextureUnits - 1)

\* stbi_load(filename, &width, &height, &colorChannels, 0): the decoded image,
\* or none when the file cannot be decoded
stbi_load(filename) ==
    CASE filename = "textures/grey.png" -> [image |-> TRUE, colorChannels |-> 1]
      [] filename = "textures/greyalpha.png" -> [image |-> TRUE, colorChannels |-> 2]
      [] filename = "textures/brick.jpg" -> [image |-> TRUE, colorChannels |-> 3]
      [] filename = "textures/sand.png" -> [image |-> TRUE, colorChannels |-> 4]
      [] OTHER -> [image |-> FALSE, colorChannels |-> 0]

\* a plausible slip: every decoded image is taken for uploadable
SupportedChannelsAny(colorChannels) == colorChannels \in {1, 2, 3, 4}

\* the channel counts CreateGLTexture uploads: RGB and RGBA
SupportedChannels(colorChannels) == colorChannels \in {3, 4}

Call(op, tag, ret, out) == [op |-> op, tag |-> tag, ret |-> ret, out |-> out]

\* a plausible slip: the new entry goes in front of the others
RegisterTextureInFront(textureID, tag) ==
    /\ m_textureIDs' = <<[ID |-> textureID, tag |-> tag]>> \o m_textureIDs
    /\ m_loadedTextures' = m_loadedTextures + 1

\* the entry written by CreateGLTexture at m_textureIDs[m_loadedTextures]
RegisterTexture(textureID, tag) ==
    /\ m_textureIDs' = Append(m_textureIDs, [ID |-> textureID, tag |-> tag])
    /\ m_loadedTextures' = m_loadedTextures + 1

\* the runs of the model make a bounded number of loads
LoadWithinBounds(filename, maxTextures, maxGen) ==
    LET loaded == stbi_load(filename)
    IN  /\ loaded.image => glGenCount < maxGen
        /\ (loaded.image /\ SupportedChannels(loaded.colorChannels)) =>
               m_loadedTextures < maxTextures

\* m_textureIDs has NumTextureUnits elements and the index is not tested: the
\* write of an entry past the last element either lands in the memory behind
\* the array (kept here as a further element of the sequence) or faults
CreateGLTexture(filename, tag) ==
    LET loaded == stbi_load(filename)
        textureID == glGenCount + 1
    IN  /\ ~crashed
        /\ IF loaded.image
           THEN /\ glGenCount' = glGenCount + 1
                /\ IF SupportedChannels(loaded.colorChannels)
                   THEN \* upload, free the image, unbind, register
                        /\ glTextureUnits' = [glTextureUnits EXCEPT ![glActiveTexture] = 0]
                        /\ UNCHANGED stbiLiveImages
                        /\ \/ /\ RegisterTexture(textureID, tag)
                              /\ lastCall' = Call("CreateGLTexture", tag, TRUE, filename)
                              /\ successfulLoads' = successfulLoads + 1
                              /\ UNCHANGED crashed
                           \/ /\ m_loadedTextures >= NumTextureUnits
                              /\ crashed' = TRUE
                              /\ lastCall' = Call("CreateGLTexture", tag, NULL, filename)
                              /\ UNCHANGED <<m_textureIDs, m_loadedTextures,
                                             successfulLoads>>
                   ELSE \* return false with the texture bound and the image not freed
                        /\ glTextureUnits' =
                               [glTextureUnits EXCEPT ![glActiveTexture] = textureID]
                        /\ stbiLiveImages' = stbiLiveImages + 1
                        /\ UNCHANGED <<m_textureIDs, m_loadedTextures, successfulLoads,
                                       crashed>>
                        /\ lastCall' = Call("CreateGLTexture", tag, FALSE, filename)
           ELSE /\ lastCall' = Call("CreateGLTexture", tag, FALSE, filename)
                /\ UNCHANGED <<glGenCount, glTextureUnits, stbiLiveImages,
                               m_textureIDs, m_loadedTextures, successfulLoads, crashed>>
        /\ UNCHANGED <<m_pShaderManager, m_objectMaterials, uniforms, glActiveTexture,
                       viewVars>>

\* the loop of BindGLTextures from index i on, as [units, active], on an
\* implementation with unitCount texture units: glActiveTexture with a unit
\* that does not exist is an error that leaves the active unit as it was
RECURSIVE BindLoopOver(_, _, _, _, _, _)
BindLoopOver(ids, loaded, i, units, active, unitCount) ==
    IF i < loaded
    THEN LET act == IF i < unitCount THEN i ELSE active
         IN  BindLoopOver(ids, loaded, i + 1, [units EXCEPT ![act] = ids[i + 1].ID], act,
                          unitCount)
    ELSE [units |-> units, active |-> active]

BindLoop(i, units, active, unitCount) ==
    BindLoopOver(m_textureIDs, m_loadedTextures, i, units, active, unitCount)

BindGLTextures ==
    /\ ~crashed
    /\ \E unitCount \in GLTextureUnitCounts :
          LET r == BindLoop(0, glTextureUnits, glActiveTexture, unitCount)
          IN  /\ glTextureUnits' = r.units
              /\ glActiveTexture' = r.active
    /\ lastCall' = Call("BindGLTextures", "", 0, 0)
    /\ UNCHANGED <<m_pShaderManager, m_textureIDs, m_loadedTextures,
                   m_objectMaterials, uniforms, glGenCount, stbiLiveImages, crashed,
                   viewVars, successfulLoads>>

\* the loop of DestroyGLTextures from index i on: glGenTextures writes a new
\* name over each registered ID
RECURSIVE DestroyLoop(_, _, _)
DestroyLoop(i, ids, gen) ==
    IF i < m_loadedTextures
    THEN DestroyLoop(i + 1, [ids EXCEPT ![i + 1].ID = gen + 1], gen + 1)
    ELSE [ids |-> ids, gen |-> gen]

DestroyGLTextures ==
    LET r == DestroyLoop(0, m_textureIDs, glGenCount)
    IN  /\ ~crashed
        /\ glGenCount + m_loadedTextures <= MaxGen
        /\ m_textureIDs' = r.ids
        /\ glGenCount' = r.gen
        /\ lastCall' = Call("DestroyGLTextures", "", 0, 0)
        /\ UNCHANGED <<m_pShaderManager, m_loadedTextures, m_objectMaterials, uniforms,
                       glTextureUnits, glActiveTexture, stbiLiveImages, crashed,
                       viewVars, successfulLoads>>

\* the texture names given to glDeleteTextures: the program never calls it
glDeletedTextures == {}

\* a plausible slip: the loop goes on after a match, so the last match wins
RECURSIVE FindTextureLoopLastMatch(_, _)
FindTextureLoopLastMatch(index, tag) ==
    IF index < m_loadedTextures
    THEN LET later == FindTextureLoopLastMatch(index + 1, tag)
         IN  IF later # -1
             THEN later
             ELSE IF m_textureIDs[index + 1].tag = tag THEN index ELSE -1
    ELSE -1

\* the while loop shared by FindTextureID and FindTextureSlot
RECURSIVE FindTextureLoop(_, _)
FindTextureLoop(index, tag) ==
    IF index < m_loadedTextures
    THEN IF m_textureIDs[index + 1].tag = tag
         THEN index
         ELSE FindTextureLoop(index + 1, tag)
    ELSE -1

FindTextureSlot(tag) == FindTextureLoop(0, tag)

FindTextureID(tag) ==
    LET index == FindTextureLoop(0, tag)
    IN  IF index = -1 THEN -1 ELSE m_textureIDs[index + 1].ID


\* ------------------------------------------------------------------------
\* Material catalog
\* ------------------------------------------------------------------------

Material(tag, diffuseColor, specularColor, shininess) ==
    [tag |-> tag, diffuseColor |-> diffuseColor, specularColor |-> specularColor,
     shininess |-> shininess]

\* the six entries DefineObjectMaterials pushes, in order
DefinedMaterials ==
    << Material("plastic", <<100, 100, 100>>, <<20, 20, 20>>, 2100),
       Material("wood", <<60, 50, 20>>, <<10, 20, 20>>, 100),
       Material("metal", <<30, 30, 20>>, <<70, 70, 80>>, 800),
       Material("glass", <<30, 30, 20>>, <<90, 90, 80>>, 1000),
       Material("tile", <<50, 50, 50>>, <<70, 70, 70>>, 600),
       Material("stone", <<50, 50, 50>>, <<73, 30, 30>>, 600) >>

DefineObjectMaterials ==
    /\ ~crashed
    /\ Len(m_objectMaterials) < MaxDefines * Len(DefinedMaterials)
    /\ m_objectMaterials' = m_objectMaterials \o DefinedMaterials
    /\ lastCall' = Call("DefineObjectMaterials", "", 0, 0)
    /\ UNCHANGED <<m_pShaderManager, m_textureIDs, m_loadedTextures, uniforms,
                   glGenCount, glTextureUnits, glActiveTexture, stbiLiveImages, crashed,
                   viewVars, successfulLoads>>

\* what a local OBJECT_MATERIAL that was never assigned may hold: the vectors
\* and the float are whatever the stack held; the string is empty
UninitializedMaterials ==
    { Material("", <<0, 0, 0>>, <<0, 0, 0>>, 0),
      Material("", <<-7, 13, 999>>, <<42, -1, 5>>, -300) }

\* the while loop of FindMaterial from index on; material is the out parameter
RECURSIVE FindMaterialLoop(_, _, _)
FindMaterialLoop(index, tag, material) ==
    IF index < Len(m_objectMaterials)
    THEN IF m_objectMaterials[index + 1].tag = tag
         THEN [material EXCEPT
                  !.diffuseColor = m_objectMaterials[index + 1].diffuseColor,
                  !.specularColor = m_objectMaterials[index + 1].specularColor,
                  !.shininess = m_objectMaterials[index + 1].shininess]
         ELSE FindMaterialLoop(index + 1, tag, material)
    ELSE material

\* FindMaterial(tag, material): the value returned and the out parameter after it
FindMaterial(tag, material) ==
    IF Len(m_objectMaterials) = 0
    THEN [ret |-> FALSE, material |-> material]
    ELSE [ret |-> TRUE, material |-> FindMaterialLoop(0, tag, material)]


\* ------------------------------------------------------------------------
\* Transform pipeline
\* ------------------------------------------------------------------------

Dot4(r, c) == r[1] * c[1] + r[2] * c[2] + r[3] * c[3] + r[4] * c[4]

Column(m, j) == <<m[1][j], m[2][j], m[3][j], m[4][j]>>

\* the matrix product a * b; a matrix is the tuple of its rows
MatMul(a, b) == [i \in 1..4 |-> [j \in 1..4 |-> Dot4(a[i], Column(b, j))]]

\* a matrix applied to the point v as a column vector (w = 1)
MatPoint(m, v) ==
    LET c == <<v[1], v[2], v[3], 1>>
    IN  <<Dot4(m[1], c), Dot4(m[2], c), Dot4(m[3], c)>>

\* cosine and sine of a whole multiple of 90 degrees
Cos(degrees) == CASE degrees % 360 = 0 -> 1
                  [] degrees % 360 = 180 -> -1
                  [] OTHER -> 0

Sin(degrees) == CASE degrees % 360 = 90 -> 1
                  [] degrees % 360 = 270 -> -1
                  [] OTHER -> 0

\* glm::scale(v)
glmScale(v) ==
    << <<v[1], 0, 0, 0>>, <<0, v[2], 0, 0>>, <<0, 0, v[3], 0>>, <<0, 0, 0, 1>> >>

\* glm::translate(v)
glmTranslate(v) ==
    << <<1, 0, 0, v[1]>>, <<0, 1, 0, v[2]>>, <<0, 0, 1, v[3]>>, <<0, 0, 0, 1>> >>

\* glm::rotate(glm::radians(degrees), axis) about the unit axes
glmRotateX(degrees) ==
    LET c == Cos(degrees)
        s == Sin(degrees)
    IN  << <<1, 0, 0, 0>>, <<0, c, -s, 0>>, <<0, s, c, 0>>, <<0, 0, 0, 1>> >>

glmRotateY(degrees) ==
    LET c == Cos(degrees)
        s == Sin(degrees)
    IN  << <<c, 0, s, 0>>, <<0, 1, 0, 0>>, <<-s, 0, c, 0>>, <<0, 0, 0, 1>> >>

glmRotateZ(degrees) ==
    LET c == Cos(degrees)
        s == Sin(degrees)
    IN  << <<c, -s, 0, 0>>, <<s, c, 0, 0>>, <<0, 0, 1, 0>>, <<0, 0, 0, 1>> >>

\* a plausible slip: the rotations multiplied in the order X, Y, Z
ModelViewRotationsReversed(scaleXYZ, XrotationDegrees, YrotationDegrees, ZrotationDegrees, positionXYZ) ==
    MatMul(glmTranslate(positionXYZ),
        MatMul(glmRotateX(XrotationDegrees),
            MatMul(glmRotateY(YrotationDegrees),
                MatMul(glmRotateZ(ZrotationDegrees), glmScale(scaleXYZ)))))

\* modelView = translation * rotationZ * rotationY * rotationX * scale
ModelView(scaleXYZ, XrotationDegrees, YrotationDegrees, ZrotationDegrees, positionXYZ) ==
    MatMul(glmTranslate(positionXYZ),
        MatMul(glmRotateZ(ZrotationDegrees),
            MatMul(glmRotateY(YrotationDegrees),
                MatMul(glmRotateX(XrotationDegrees), glmScale(scaleXYZ)))))

SetTransformations(scaleXYZ, XrotationDegrees, YrotationDegrees, ZrotationDegrees, positionXYZ) ==
    LET modelView == ModelView(scaleXYZ, XrotationDegrees, YrotationDegrees,
                               ZrotationDegrees, positionXYZ)
    IN  /\ ~crashed
        /\ IF NULL # m_pShaderManager
           THEN uniforms' = setValue(uniforms, g_ModelName, modelView)
           ELSE UNCHANGED uniforms
        /\ lastCall' = Call("SetTransformations", "", 0,
                            <<scaleXYZ, XrotationDegrees, YrotationDegrees,
                              ZrotationDegrees, positionXYZ>>)
        /\ UNCHANGED <<m_pShaderManager, m_textureIDs, m_loadedTextures,
                       m_objectMaterials, glGenCount, glTextureUnits, glActiveTexture,
                       stbiLiveImages, crashed, viewVars, successfulLoads>>

\* ------------------------------------------------------------------------
\* Shader parameter setters
\* ------------------------------------------------------------------------

\* a plausible slip: the sampling flag is raised only for a tag that resolves
ShaderTextureUniformsIfResolved(u, textureTag) ==
    IF FindTextureSlot(textureTag) = -1
    THEN setValue(u, g_TextureValueName, FindTextureSlot(textureTag))
    ELSE setValue(setValue(u, g_UseTextureName, BoolToInt(TRUE)),
                  g_TextureValueName, FindTextureSlot(textureTag))

\* a plausible slip: the diffuse colour goes to the key of the object colour
ShaderMaterialUniformsWrongKey(u, materialTag, material) ==
    LET found == FindMaterial(materialTag, material)
    IN  IF Len(m_objectMaterials) > 0 /\ found.ret = TRUE
        THEN setValue(
                 setValue(
                     setValue(u, g_ColorValueName, found.material.diffuseColor),
                     "material.specularColor", found.material.specularColor),
                 "material.shininess", found.material.shininess)
        ELSE u

\* what each setter writes to the sink when there is one
ShaderColorUniforms(u, currentColor) ==
    setValue(setValue(u, g_UseTextureName, BoolToInt(FALSE)),
             g_ColorValueName, currentColor)

ShaderTextureUniforms(u, textureTag) ==
    setValue(setValue(u, g_UseTextureName, BoolToInt(TRUE)),
             g_TextureValueName, FindTextureSlot(textureTag))

TextureUVScaleUniforms(u, uv) == setValue(u, "UVscale", uv)

\* material is the local OBJECT_MATERIAL as it is before FindMaterial is called
ShaderMaterialUniforms(u, materialTag, material) ==
    LET found == FindMaterial(materialTag, material)
    IN  IF Len(m_objectMaterials) > 0 /\ found.ret = TRUE
        THEN setValue(
                 setValue(
                     setValue(u, "material.diffuseColor", found.material.diffuseColor),
                     "material.specularColor", found.material.specularColor),
                 "material.shininess", found.material.shininess)
        ELSE u

SetterFrame ==
    UNCHANGED <<m_pShaderManager, m_textureIDs, m_loadedTextures, m_objectMaterials,
                glGenCount, glTextureUnits, glActiveTexture, stbiLiveImages, viewVars, successfulLoads>>

SetShaderColor(currentColor) ==
    /\ ~crashed
    /\ IF NULL # m_pShaderManager
       THEN uniforms' = ShaderColorUniforms(uniforms, currentColor)
       ELSE UNCHANGED uniforms
    /\ lastCall' = Call("SetShaderColor", "", 0, currentColor)
    /\ UNCHANGED crashed
    /\ SetterFrame

SetShaderTexture(textureTag) ==
    /\ ~crashed
    /\ IF NULL # m_pShaderManager
       THEN uniforms' = ShaderTextureUniforms(uniforms, textureTag)
       ELSE UNCHANGED uniforms
    /\ lastCall' = Call("SetShaderTexture", textureTag, 0, FindTextureSlot(textureTag))
    /\ UNCHANGED crashed
    /\ SetterFrame

SetTextureUVScale(uv) ==
    /\ ~crashed
    /\ IF NULL # m_pShaderManager
       THEN uniforms' = TextureUVScaleUniforms(uniforms, uv)
       ELSE UNCHANGED uniforms
    /\ lastCall' = Call("SetTextureUVScale", "", 0, uv)
    /\ UNCHANGED crashed
    /\ SetterFrame

\* SetShaderMaterial does not test m_pShaderManager before it uploads
SetShaderMaterial(materialTag) ==
    /\ ~crashed
    /\ \E material \in UninitializedMaterials :
          LET found == FindMaterial(materialTag, material)
              uploads == Len(m_objectMaterials) > 0 /\ found.ret = TRUE
          IN  /\ IF uploads /\ NULL # m_pShaderManager
                 THEN uniforms' = ShaderMaterialUniforms(uniforms, materialTag, material)
                 ELSE UNCHANGED uniforms
              /\ crashed' = (uploads /\ NULL = m_pShaderManager)
              /\ lastCall' = Call("SetShaderMaterial", materialTag, found.ret,
                                  IF uploads THEN found.material ELSE 0)
    /\ SetterFrame


\* ------------------------------------------------------------------------
\* Lookups called on their own
\* ------------------------------------------------------------------------

LookupFrame ==
    UNCHANGED <<m_pShaderManager, m_textureIDs, m_loadedTextures, m_objectMaterials,
                uniforms, glGenCount, glTextureUnits, glActiveTexture, stbiLiveImages,
                crashed, viewVars, successfulLoads>>

CallFindTextureSlot(tag) ==
    /\ ~crashed
    /\ lastCall' = Call("FindTextureSlot", tag, FindTextureSlot(tag), 0)
    /\ LookupFrame

CallFindTextureID(tag) ==
    /\ ~crashed
    /\ lastCall' = Call("FindTextureID", tag, FindTextureID(tag), 0)
    /\ LookupFrame

CallFindMaterial(tag) ==
    /\ ~crashed
    /\ \E material \in UninitializedMaterials :
          LET found == FindMaterial(tag, material)
          IN  lastCall' = Call("FindMaterial", tag, found.ret, found.material)
    /\ LookupFrame

\* ------------------------------------------------------------------------
\* Camera (the Camera class the view controller drives)
\* ------------------------------------------------------------------------

\* degrees of yaw or pitch per unit of mouse offset, in tenths
MouseSensitivityTenths == 1

\* the pitch is kept within +-PitchLimit degrees
PitchLimit == 89

\* cosine and sine of the pitch in thousandths, at the pitches the model reaches
CosPitch(pitch) == CASE pitch = 0 -> 1000
                     [] pitch \in {PitchLimit, -PitchLimit} -> 17

SinPitch(pitch) == CASE pitch = 0 -> 0
                     [] pitch = PitchLimit -> 1000
                     [] pitch = -PitchLimit -> -1000

\* updateCameraVectors: Front, Right and Up from Yaw and Pitch
updateCameraVectors(cam) ==
    LET front == <<Cos(cam.Yaw) * CosPitch(cam.Pitch), SinPitch(cam.Pitch),
                   Sin(cam.Yaw) * CosPitch(cam.Pitch)>>
        right == <<-Sin(cam.Yaw) * 1000, 0, Cos(cam.Yaw) * 1000>>
        up == <<(-right[3] * front[2]) \div 1000,
                (right[3] * front[1] - right[1] * front[3]) \div 1000,
                (right[1] * front[2]) \div 1000>>
    IN  [cam EXCEPT !.Front = front, !.Right = right, !.Up = up]

Clamp(x, lo, hi) == IF x < lo THEN lo ELSE IF x > hi THEN hi ELSE x

\* Camera::ProcessMouseMovement(xoffset, yoffset)
CameraProcessMouseMovement(cam, xoffset, yoffset) ==
    LET yaw == cam.Yaw + (xoffset * MouseSensitivityTenths) \div 10
        pitch == Clamp(cam.Pitch + (yoffset * MouseSensitivityTenths) \div 10,
                       -PitchLimit, PitchLimit)
    IN  updateCameraVectors([cam EXCEPT !.Yaw = yaw, !.Pitch = pitch])

\* Camera::ProcessKeyboard(direction, deltaTime)
CameraProcessKeyboard(cam, direction, deltaTime) ==
    LET velocity == cam.MovementSpeed * deltaTime
    IN  CASE direction = "FORWARD" ->
                [cam EXCEPT !.Position = Vec3Add(@, Vec3Scale(cam.Front, velocity))]
          [] direction = "BACKWARD" ->
                [cam EXCEPT !.Position = Vec3Add(@, Vec3Scale(cam.Front, -velocity))]
          [] direction = "LEFT" ->
                [cam EXCEPT !.Position = Vec3Add(@, Vec3Scale(cam.Right, -velocity))]
          [] direction = "RIGHT" ->
                [cam EXCEPT !.Position = Vec3Add(@, Vec3Scale(cam.Right, velocity))]

\* Camera::GetViewMatrix(): the look-at matrix, kept as its three arguments
GetViewMatrix(cam) ==
    [kind |-> "lookAt", eye |-> cam.Position,
     center |-> Vec3Add(cam.Position, cam.Front), up |-> cam.Up]

\* the Camera as its constructor leaves it
NewCamera ==
    [Position |-> <<0, 0, 0>>, Front |-> <<0, 0, -1000>>, Up |-> <<0, 1000, 0>>,
     Right |-> <<1000, 0, 0>>, Yaw |-> -90, Pitch |-> 0, Zoom |-> 45,
     MovementSpeed |-> 2]

\* ------------------------------------------------------------------------
\* View controller
\* ------------------------------------------------------------------------

WINDOW_WIDTH == 1000
WINDOW_HEIGHT == 800

g_ViewName == "view"
g_ProjectionName == "projection"

\* the upper end of the clock
MaxTime == 1

Keys == {"ESCAPE", "P", "O", "W", "S", "A", "D", "Q", "E"}

\* the keys found pressed in one frame
KeyCombos == { {}, {"ESCAPE"}, {"P"}, {"O"}, {"P", "O"}, {"O", "Q"},
               {"W"}, {"S"}, {"A"}, {"D"}, {"Q"}, {"E"}, {"Q", "E"} }

ScrollOffsets == {-100, -20, 100}

MousePositions == {<<500, 400>>, <<1400, 2180>>}

\* the cursor positions of the input specification
CursorPositions == {<<500, 400>>, <<1400, 2180>>, <<2300, 1290>>}

\* the keys of the input specification
InputKeyCombos == { {}, {"W"} }

\* ViewManager(pShaderManager): a new camera with the default view parameters
InitView ==
    /\ g_pCamera = "Camera"
    /\ camera = [NewCamera EXCEPT !.Position = <<500, 5500, 10000>>,
                                  !.Front = <<0, -500, -2000>>,
                                  !.Up = <<0, 1000, 0>>,
                                  !.Zoom = 80,
                                  !.MovementSpeed = 10]
    /\ gLastX = WINDOW_WIDTH \div 2
    /\ gLastY = WINDOW_HEIGHT \div 2
    /\ gFirstMouse = TRUE
    /\ gDeltaTime = 0
    /\ gLastFrame = 0
    /\ bOrthographicProjection = FALSE
    /\ glfwTime = 0
    /\ windowShouldClose = FALSE
    /\ viewHistory = [firstMouse |-> NULL, lastMouse |-> NULL, offsetSum |-> <<0, 0>>,
                      previousFrameTime |-> -1]

ViewFrame ==
    UNCHANGED <<m_pShaderManager, m_textureIDs, m_loadedTextures, m_objectMaterials,
                glGenCount, glTextureUnits, glActiveTexture, stbiLiveImages,
                successfulLoads>>

\* ~ViewManager(): the camera is deleted and the global pointer cleared
DestroyViewManager ==
    /\ ~crashed
    /\ g_pCamera # NULL
    /\ g_pCamera' = NULL
    /\ lastCall' = Call("~ViewManager", "", 0, 0)
    /\ ViewFrame
    /\ UNCHANGED <<uniforms, crashed, camera, gLastX, gLastY, gFirstMouse, gDeltaTime,
                   gLastFrame, bOrthographicProjection, glfwTime, windowShouldClose,
                   viewHistory>>

\* the clock goes on between the calls
Tick ==
    /\ ~crashed
    /\ glfwTime < MaxTime
    /\ glfwTime' = glfwTime + 1
    /\ ViewFrame
    /\ UNCHANGED <<uniforms, crashed, lastCall, g_pCamera, camera, gLastX, gLastY,
                   gFirstMouse, gDeltaTime, gLastFrame, bOrthographicProjection,
                   windowShouldClose, viewHistory>>

\* a plausible slip: only the lower end of the range is enforced
ClampSpeedBelowOnly(newSpeed) == IF newSpeed < 1 THEN 1 ELSE newSpeed

\* the two tests that keep the new speed within 1.0f and 50.0f
ClampSpeed(newSpeed) == Clamp(newSpeed, 1, 50)

Scroll_Callback(yoffset) ==
    /\ ~crashed
    /\ IF g_pCamera = NULL
       THEN UNCHANGED camera
       ELSE camera' = [camera EXCEPT
                          !.MovementSpeed = ClampSpeed(camera.MovementSpeed + yoffset)]
    /\ lastCall' = Call("Scroll_Callback", "", 0, yoffset)
    /\ ViewFrame
    /\ UNCHANGED <<uniforms, crashed, g_pCamera, gLastX, gLastY, gFirstMouse, gDeltaTime,
                   gLastFrame, bOrthographicProjection, glfwTime, windowShouldClose,
                   viewHistory>>

\* a plausible slip: the first event is not told from the others
MouseReferenceNeverLatched(firstMouse, last, mousePos) == last

\* the position the offsets are taken from: the first event records its own
MouseReference(firstMouse, last, mousePos) == IF firstMouse THEN mousePos ELSE last

\* a plausible slip: the Y offset is not reversed
MouseOffsetsNotReversed(mousePos, last) == <<mousePos[1] - last[1], mousePos[2] - last[2]>>

\* xOffset and yOffset, the second reversed
MouseOffsets(mousePos, last) == <<mousePos[1] - last[1], last[2] - mousePos[2]>>

\* g_pCamera->ProcessMouseMovement is called without a test of g_pCamera
Mouse_Position_Callback(xMousePos, yMousePos) ==
    LET last == MouseReference(gFirstMouse, <<gLastX, gLastY>>, <<xMousePos, yMousePos>>)
        offsets == MouseOffsets(<<xMousePos, yMousePos>>, last)
        xOffset == offsets[1]
        yOffset == offsets[2]
    IN  /\ ~crashed
        /\ gFirstMouse' = FALSE
        /\ gLastX' = xMousePos
        /\ gLastY' = yMousePos
        /\ IF g_pCamera = NULL
           THEN crashed' = TRUE /\ UNCHANGED camera
           ELSE /\ camera' = CameraProcessMouseMovement(camera, xOffset, yOffset)
                /\ UNCHANGED crashed
        /\ lastCall' = Call("Mouse_Position_Callback", "", 0, <<xOffset, yOffset>>)
        /\ viewHistory' =
               [viewHistory EXCEPT
                   !.firstMouse = IF @ = NULL THEN <<xMousePos, yMousePos>> ELSE @,
                   !.lastMouse = <<xMousePos, yMousePos>>,
                   !.offsetSum = <<@[1] + xOffset, @[2] + yOffset>>]
        /\ ViewFrame
        /\ UNCHANGED <<uniforms, g_pCamera, gDeltaTime, gLastFrame,
                       bOrthographicProjection, glfwTime, windowShouldClose>>

\* a plausible slip: the pose is restored on the way back to perspective
SwitchToPerspectiveRestoresPose(cam) ==
    [cam EXCEPT !.Position = <<500, 5500, 10000>>, !.Front = <<0, -500, -2000>>]

\* the P key: the camera position and orientation are left as they are
SwitchToPerspective(cam) == cam

\* a plausible slip: the snap leaves yaw and pitch alone
SnapToOrthographicKeepsAngles(cam) ==
    [cam EXCEPT !.Position = <<0, 0, 10000>>,
                !.Front = <<0, 0, -1000>>,
                !.Up = <<0, 1000, 0>>]

\* the O key: the camera is snapped to look straight at the scene
SnapToOrthographic(cam) ==
    [cam EXCEPT !.Position = <<0, 0, 10000>>,
                !.Front = <<0, 0, -1000>>,
                !.Up = <<0, 1000, 0>>,
                !.Yaw = -90,
                !.Pitch = 0]

\* the Q key: Position += Up * MovementSpeed * gDeltaTime
MoveUp(cam, deltaTime) ==
    [cam EXCEPT !.Position = Vec3Add(@, Vec3Scale(cam.Up, cam.MovementSpeed * deltaTime))]

\* a plausible slip: the step down is not scaled by the elapsed time
MoveDownUnscaled(cam, deltaTime) ==
    [cam EXCEPT !.Position = Vec3Add(@, Vec3Scale(cam.Up, -cam.MovementSpeed))]

\* the E key: Position -= Up * MovementSpeed * gDeltaTime
MoveDown(cam, deltaTime) ==
    [cam EXCEPT !.Position =
        Vec3Add(@, Vec3Scale(cam.Up, -(cam.MovementSpeed * deltaTime)))]

\* ProcessKeyboardEvents() with the keys in pressed down: what it leaves of the
\* camera, the projection flag and the close flag, and whether it dereferenced
\* a null camera on the way
ProcessKeyboardEvents(pressed, cam, orthographic, shouldClose, deltaTime) ==
    LET close == shouldClose \/ "ESCAPE" \in pressed
        afterP == IF "P" \in pressed THEN FALSE ELSE orthographic
        afterO == IF "O" \in pressed THEN TRUE ELSE afterP
        camP == IF "P" \in pressed THEN SwitchToPerspective(cam) ELSE cam
        snapped == IF "O" \in pressed THEN SnapToOrthographic(camP) ELSE camP
        camW == IF "W" \in pressed
                THEN CameraProcessKeyboard(snapped, "FORWARD", deltaTime) ELSE snapped
        camS == IF "S" \in pressed
                THEN CameraProcessKeyboard(camW, "BACKWARD", deltaTime) ELSE camW
        camA == IF "A" \in pressed
                THEN CameraProcessKeyboard(camS, "LEFT", deltaTime) ELSE camS
        camD == IF "D" \in pressed
                THEN CameraProcessKeyboard(camA, "RIGHT", deltaTime) ELSE camA
        camQ == IF "Q" \in pressed THEN MoveUp(camD, deltaTime) ELSE camD
        camE == IF "E" \in pressed THEN MoveDown(camQ, deltaTime) ELSE camQ
    IN  [camera |-> IF g_pCamera = NULL THEN cam ELSE camE,
         orthographic |-> afterO,
         shouldClose |-> close,
         nullDereferenced |-> (g_pCamera = NULL /\ "O" \in pressed)]

\* a plausible slip: the flag is not looked at
ProjectionAlwaysPerspective(orthographic, cam) ==
    [kind |-> "perspective", halfHeight |-> 0, halfWidth |-> 0, zoom |-> cam.Zoom]

\* the projection matrix, kept as the call that builds it
Projection(orthographic, cam) ==
    IF orthographic
    THEN [kind |-> "ortho", halfHeight |-> 10, halfWidth |-> (10 * WINDOW_WIDTH) \div WINDOW_HEIGHT,
          zoom |-> 0]
    ELSE [kind |-> "perspective", halfHeight |-> 0, halfWidth |-> 0, zoom |-> cam.Zoom]

PrepareSceneView(pressed) ==
    LET currentFrame == glfwTime
        deltaTime == currentFrame - gLastFrame
        kb == ProcessKeyboardEvents(pressed, camera, bOrthographicProjection,
                                    windowShouldClose, deltaTime)
    IN  /\ ~crashed
        /\ gDeltaTime' = deltaTime
        /\ gLastFrame' = currentFrame
        /\ camera' = kb.camera
        /\ bOrthographicProjection' = kb.orthographic
        /\ windowShouldClose' = kb.shouldClose
        /\ crashed' = (g_pCamera = NULL)
        /\ IF g_pCamera # NULL /\ NULL # m_pShaderManager
           THEN uniforms' =
                    setValue(
                        setValue(
                            setValue(uniforms, g_ViewName, GetViewMatrix(kb.camera)),
                            g_ProjectionName, Projection(kb.orthographic, kb.camera)),
                        "viewPosition", kb.camera.Position)
           ELSE UNCHANGED uniforms
        /\ lastCall' = Call("PrepareSceneView", "", kb.nullDereferenced, pressed)
        /\ viewHistory' = [viewHistory EXCEPT !.previousFrameTime = currentFrame]
        /\ ViewFrame
        /\ UNCHANGED <<g_pCamera, gLastX, gLastY, gFirstMouse, glfwTime>>

\* ------------------------------------------------------------------------
\* The scene: RenderScene
\* ------------------------------------------------------------------------

\* the spheres of a corner arc go from 0 to numSpheres
numSpheres == 10
numSpheresFl == 6

\* one call of RenderScene: the setter or draw called, its tag, colour, UV
\* scale or mesh, the source line of the call and the loop index it runs at.
\* The arguments of a SetTransformations call are fixed by the line and the
\* loop index and are not kept.
RenderCall(op, arg, line) == [op |-> op, arg |-> arg, line |-> line, i |-> 0]

\* a plausible slip: the matrix is uploaded once, ahead of the loop
ArcLoopOneUpload(count, transformLine, mesh, drawLine) ==
    <<RenderCall("SetTransformations", 0, transformLine)>>
    \o [k \in 1..(count + 1) |->
           [RenderCall("Draw", mesh, drawLine) EXCEPT !.i = k - 1]]

\* for (int i = 0; i <= count; ++i) { SetTransformations(...); Draw...Mesh(); }
ArcLoop(count, transformLine, mesh, drawLine) ==
    [k \in 1..(2 * (count + 1)) |->
        IF k % 2 = 1
        THEN [RenderCall("SetTransformations", 0, transformLine) EXCEPT !.i = (k - 1) \div 2]
        ELSE [RenderCall("Draw", mesh, drawLine) EXCEPT !.i = (k - 2) \div 2]]

\* RenderScene, lines 520 to 583: the two planes: floor and backdrop
PlaneCalls ==
    << RenderCall("SetShaderMaterial", "default", 520),
       RenderCall("SetShaderTexture", "plane_texture", 521),
       RenderCall("SetTextureUVScale", <<100, 100>>, 522),
       RenderCall("SetTransformations", 0, 535),
       RenderCall("SetShaderColor", <<100, 100, 100, 100>>, 542),
       RenderCall("SetShaderMaterial", "stone", 543),
       RenderCall("SetShaderTexture", "sand_texture", 544),
       RenderCall("Draw", "DrawPlaneMesh", 546),
       RenderCall("SetShaderMaterial", "default", 555),
       RenderCall("SetShaderTexture", "plane_texture", 556),
       RenderCall("SetTextureUVScale", <<100, 100>>, 557),
       RenderCall("SetTransformations", 0, 570),
       RenderCall("SetShaderColor", <<54, 81, 94, 100>>, 578),
       RenderCall("SetShaderMaterial", "stone", 579),
       RenderCall("SetShaderTexture", "brick_texture", 580),
       RenderCall("Draw", "DrawPlaneMesh", 583) >>

\* RenderScene, lines 593 to 831: the mobile (torus, strings, hanging shapes)
\* and the legs
MobileCalls ==
    << RenderCall("SetTransformations", 0, 593),
       RenderCall("SetShaderTexture", "plasticd_texture", 594),
       RenderCall("SetShaderMaterial", "plastic", 595),
       RenderCall("SetTextureUVScale", <<100, 100>>, 596),
       RenderCall("Draw", "DrawTorusMesh", 597),
       RenderCall("SetTransformations", 0, 605),
       RenderCall("SetShaderColor", <<80, 80, 80, 100>>, 606),
       RenderCall("SetShaderTexture", "plasticd_texture", 607),
       RenderCall("SetShaderMaterial", "plastic", 608),
       RenderCall("Draw", "DrawCylinderMesh", 609),
       RenderCall("SetTransformations", 0, 617),
       RenderCall("SetShaderColor", <<80, 80, 80, 100>>, 618),
       RenderCall("SetShaderTexture", "plasticd_texture", 619),
       RenderCall("SetShaderMaterial", "plastic", 620),
       RenderCall("Draw", "DrawCylinderMesh", 621),
       RenderCall("SetTransformations", 0, 630),
       RenderCall("SetShaderColor", <<80, 80, 80, 100>>, 631),
       RenderCall("SetShaderTexture", "plasticd_texture", 632),
       RenderCall("SetShaderMaterial", "plastic", 633),
       RenderCall("Draw", "DrawCylinderMesh", 634),
       RenderCall("SetTransformations", 0, 639),
       RenderCall("SetShaderTexture", "plasticd_texture", 640),
       RenderCall("SetShaderMaterial", "plastic", 641),
       RenderCall("SetTextureUVScale", <<100, 100>>, 642),
       RenderCall("Draw", "DrawSphereMesh", 643),
       RenderCall("SetTransformations", 0, 648),
       RenderCall("SetShaderTexture", "plasticd_texture", 649),
       RenderCall("SetShaderMaterial", "plastic", 650),
       RenderCall("SetTextureUVScale", <<100, 100>>, 651),
       RenderCall("Draw", "DrawSphereMesh", 652),
       RenderCall("SetTransformations", 0, 661),
       RenderCall("SetShaderColor", <<80, 80, 80, 100>>, 662),
       RenderCall("Draw", "DrawCylinderMesh", 663),
       RenderCall("SetTransformations", 0, 671),
       RenderCall("SetShaderColor", <<80, 80, 80, 100>>, 672),
       RenderCall("Draw", "DrawCylinderMesh", 673),
       RenderCall("SetTransformations", 0, 681),
       RenderCall("SetShaderColor", <<80, 80, 80, 100>>, 682),
       RenderCall("Draw", "DrawCylinderMesh", 683),
       RenderCall("SetTransformations", 0, 691),
       RenderCall("SetShaderColor", <<80, 80, 80, 100>>, 692),
       RenderCall("Draw", "DrawCylinderMesh", 693),
       RenderCall("SetTransformations", 0, 703),
       RenderCall("SetShaderTexture", "plasticb_texture", 704),
       RenderCall("SetShaderMaterial", "plastic", 705),
       RenderCall("SetTextureUVScale", <<10, 10>>, 706),
       RenderCall("Draw", "DrawPyramid4Mesh", 707),
       RenderCall("SetTransformations", 0, 712),
       RenderCall("SetShaderTexture", "plasticc_texture", 713),
       RenderCall("SetShaderMaterial", "plastic", 714),
       RenderCall("SetTextureUVScale", <<20, 20>>, 715),
       RenderCall("Draw", "DrawSphereMesh", 716),
       RenderCall("SetTransformations", 0, 725),
       RenderCall("SetShaderTexture", "plastic_texture", 726),
       RenderCall("SetShaderMaterial", "plastic", 727),
       RenderCall("SetTextureUVScale", <<10, 10>>, 728),
       RenderCall("Draw", "DrawBoxMesh", 729),
       RenderCall("SetTransformations", 0, 739),
       RenderCall("SetShaderTexture", "plasticb_texture", 740),
       RenderCall("SetShaderMaterial", "plastic", 741),
       RenderCall("SetTextureUVScale", <<10, 10>>, 742),
       RenderCall("Draw", "DrawPyramid4Mesh", 743),
       RenderCall("SetTransformations", 0, 751),
       RenderCall("SetShaderTexture", "plasticb_texture", 752),
       RenderCall("SetShaderMaterial", "plastic", 753),
       RenderCall("SetTextureUVScale", <<10, 10>>, 754),
       RenderCall("Draw", "DrawPyramid4Mesh", 755),
       RenderCall("SetTransformations", 0, 763),
       RenderCall("SetShaderTexture", "plasticb_texture", 764),
       RenderCall("SetShaderMaterial", "plastic", 765),
       RenderCall("SetTextureUVScale", <<10, 10>>, 766),
       RenderCall("Draw", "DrawPyramid4Mesh", 767),
       RenderCall("SetTransformations", 0, 775),
       RenderCall("SetShaderTexture", "plasticb_texture", 776),
       RenderCall("SetShaderMaterial", "plastic", 777),
       RenderCall("SetTextureUVScale", <<10, 10>>, 778),
       RenderCall("Draw", "DrawPyramid4Mesh", 779),
       RenderCall("SetTransformations", 0, 787),
       RenderCall("SetShaderTexture", "plasticb_texture", 788),
       RenderCall("SetShaderMaterial", "plastic", 789),
       RenderCall("SetTextureUVScale", <<10, 10>>, 790),
       RenderCall("Draw", "DrawPyramid4Mesh", 791),
       RenderCall("SetTransformations", 0, 800),
       RenderCall("SetShaderTexture", "plasticd_texture", 801),
       RenderCall("SetShaderMaterial", "plastic", 802),
       RenderCall("SetTextureUVScale", <<100, 100>>, 803),
       RenderCall("Draw", "DrawCylinderMesh", 804),
       RenderCall("SetTransformations", 0, 814),
       RenderCall("SetShaderTexture", "plasticd_texture", 815),
       RenderCall("SetShaderMaterial", "plastic", 816),
       RenderCall("SetTextureUVScale", <<100, 100>>, 817),
       RenderCall("Draw", "DrawCylinderMesh", 818),
       RenderCall("SetTransformations", 0, 827),
       RenderCall("SetShaderTexture", "plasticd_texture", 828),
       RenderCall("SetShaderMaterial", "plastic", 829),
       RenderCall("SetTextureUVScale", <<100, 100>>, 830),
       RenderCall("Draw", "DrawCylinderMesh", 831) >>

\* RenderScene, lines 848 to 1006: the two bassinet borders: corner arcs of spheres and walls
BorderCalls ==
    << RenderCall("SetShaderMaterial", "plastic", 848),
       RenderCall("SetShaderTexture", "plasticd_texture", 849),
       RenderCall("SetTextureUVScale", <<30, 20>>, 850) >>
    \o ArcLoop(numSpheres, 859, "DrawSphereMesh", 860)
    \o ArcLoop(numSpheres, 869, "DrawSphereMesh", 870)
    \o ArcLoop(numSpheres, 879, "DrawSphereMesh", 880)
    \o ArcLoop(numSpheres, 889, "DrawSphereMesh", 890)
    \o << RenderCall("SetTransformations", 0, 898),
       RenderCall("Draw", "DrawBoxMesh", 899),
       RenderCall("SetTransformations", 0, 902),
       RenderCall("Draw", "DrawBoxMesh", 903),
       RenderCall("SetTransformations", 0, 906),
       RenderCall("Draw", "DrawBoxMesh", 907),
       RenderCall("SetTransformations", 0, 910),
       RenderCall("Draw", "DrawBoxMesh", 911),
       RenderCall("SetShaderMaterial", "plastic", 924),
       RenderCall("SetShaderTexture", "plasticd_texture", 925) >>
    \o ArcLoop(numSpheresFl, 935, "DrawSphereMesh", 936)
    \o ArcLoop(numSpheresFl, 946, "DrawSphereMesh", 947)
    \o ArcLoop(numSpheresFl, 957, "DrawSphereMesh", 958)
    \o ArcLoop(numSpheresFl, 968, "DrawSphereMesh", 969)
    \o << RenderCall("SetTransformations", 0, 977),
       RenderCall("Draw", "DrawBoxMesh", 982),
       RenderCall("SetTransformations", 0, 985),
       RenderCall("Draw", "DrawBoxMesh", 990),
       RenderCall("SetTransformations", 0, 993),
       RenderCall("Draw", "DrawBoxMesh", 998),
       RenderCall("SetTransformations", 0, 1001),
       RenderCall("Draw", "DrawBoxMesh", 1006) >>

\* RenderScene, lines 1025 to 1119: the bassinet panels, the cloth and the posts
BassinetCalls ==
    << RenderCall("SetShaderMaterial", "plastic", 1025),
       RenderCall("SetShaderTexture", "cloth_texture", 1026),
       RenderCall("SetTransformations", 0, 1029),
       RenderCall("Draw", "DrawBoxMesh", 1040),
       RenderCall("SetTransformations", 0, 1043),
       RenderCall("Draw", "DrawBoxMesh", 1054),
       RenderCall("SetTransformations", 0, 1057),
       RenderCall("Draw", "DrawBoxMesh", 1068),
       RenderCall("SetTransformations", 0, 1071),
       RenderCall("Draw", "DrawBoxMesh", 1082),
       RenderCall("SetTransformations", 0, 1090),
       RenderCall("SetShaderTexture", "cloth_texture", 1091),
       RenderCall("SetShaderMaterial", "stone", 1092),
       RenderCall("SetTextureUVScale", <<100, 100>>, 1093),
       RenderCall("Draw", "DrawPlaneMesh", 1094),
       RenderCall("SetTransformations", 0, 1103),
       RenderCall("SetShaderTexture", "plasticd_texture", 1104),
       RenderCall("SetShaderMaterial", "plastic", 1105),
       RenderCall("SetTextureUVScale", <<100, 100>>, 1106),
       RenderCall("Draw", "DrawCylinderMesh", 1107),
       RenderCall("SetTransformations", 0, 1115),
       RenderCall("SetShaderTexture", "plasticd_texture", 1116),
       RenderCall("SetShaderMaterial", "plastic", 1117),
       RenderCall("SetTextureUVScale", <<100, 100>>, 1118),
       RenderCall("Draw", "DrawCylinderMesh", 1119) >>

\* RenderScene, lines 1128 to 1190: the couch
CouchCalls ==
    << RenderCall("SetTransformations", 0, 1128),
       RenderCall("SetShaderTexture", "plastic_texture", 1129),
       RenderCall("SetShaderMaterial", "wood", 1130),
       RenderCall("SetTextureUVScale", <<100, 100>>, 1131),
       RenderCall("Draw", "DrawBoxMesh", 1132),
       RenderCall("SetTransformations", 0, 1143),
       RenderCall("SetShaderTexture", "plastic_texture", 1144),
       RenderCall("SetShaderMaterial", "wood", 1145),
       RenderCall("SetTextureUVScale", <<100, 100>>, 1146),
       RenderCall("Draw", "DrawBoxMesh", 1147),
       RenderCall("SetTransformations", 0, 1158),
       RenderCall("SetShaderTexture", "plastic_texture", 1159),
       RenderCall("SetShaderMaterial", "wood", 1160),
       RenderCall("SetTextureUVScale", <<100, 100>>, 1161),
       RenderCall("Draw", "DrawCylinderMesh", 1162),
       RenderCall("SetTransformations", 0, 1173),
       RenderCall("SetShaderTexture", "plastic_texture", 1174),
       RenderCall("SetShaderMaterial", "wood", 1175),
       RenderCall("SetTextureUVScale", <<100, 100>>, 1176),
       RenderCall("Draw", "DrawCylinderMesh", 1177),
       RenderCall("SetTransformations", 0, 1186),
       RenderCall("SetShaderTexture", "plasticb_texture", 1187),
       RenderCall("SetShaderMaterial", "wood", 1188),
       RenderCall("SetTextureUVScale", <<100, 100>>, 1189),
       RenderCall("Draw", "DrawSphereMesh", 1190) >>

\* a plausible slip: the planes are drawn with the material asked for at their
\* top, "default": the calls for "stone" are left out
KeepsPlaneMaterial(call) == ~(call.op = "SetShaderMaterial" /\ call.arg = "stone")

RenderSceneCallsDefaultPlanes ==
    SelectSeq(PlaneCalls \o MobileCalls \o BorderCalls \o BassinetCalls \o CouchCalls,
              KeepsPlaneMaterial)

RenderSceneCalls == PlaneCalls \o MobileCalls \o BorderCalls \o BassinetCalls \o CouchCalls

\* the uniforms a draw call of a mesh is shaded with
DrawUniformKeys ==
    {g_ModelName, g_ColorValueName, g_UseTextureName, g_TextureValueName, "UVscale"}
        \cup MaterialKeys

\* the lines of the SetShaderMaterial calls of RenderScene that upload their
\* never-assigned local: the tag has no entry in a catalog that is not empty
UnassignedMaterialLines ==
    IF Len(m_objectMaterials) = 0
    THEN {}
    ELSE {RenderSceneCalls[k].line : k \in
             {j \in DOMAIN RenderSceneCalls :
                 /\ RenderSceneCalls[j].op = "SetShaderMaterial"
                 /\ \A n \in DOMAIN m_objectMaterials :
                        m_objectMaterials[n].tag # RenderSceneCalls[j].arg}}

\* one call of RenderScene on the frame so far: the sink, whether a null
\* pointer was dereferenced, the draws made, and the SetTransformations calls
\* since the last draw; locals gives SetShaderMaterial's local by line
RenderStep(frame, call, locals) ==
    LET sink == NULL # m_pShaderManager
    IN  IF frame.crashed
        THEN frame
        ELSE CASE call.op = "SetTransformations" ->
                    [frame EXCEPT
                        !.uniforms =
                            IF sink
                            THEN setValue(@, g_ModelName,
                                          [kind |-> "modelView", line |-> call.line,
                                           i |-> call.i])
                            ELSE @,
                        !.transforms = Append(@, <<call.line, call.i>>)]
               [] call.op = "SetShaderColor" ->
                    [frame EXCEPT
                        !.uniforms = IF sink THEN ShaderColorUniforms(@, call.arg) ELSE @]
               [] call.op = "SetShaderTexture" ->
                    [frame EXCEPT
                        !.uniforms = IF sink THEN ShaderTextureUniforms(@, call.arg) ELSE @]
               [] call.op = "SetTextureUVScale" ->
                    [frame EXCEPT
                        !.uniforms = IF sink THEN TextureUVScaleUniforms(@, call.arg) ELSE @]
               [] call.op = "SetShaderMaterial" ->
                    LET material == IF call.line \in DOMAIN locals
                                    THEN locals[call.line]
                                    ELSE Material("", <<0, 0, 0>>, <<0, 0, 0>>, 0)
                        found == FindMaterial(call.arg, material)
                        uploads == Len(m_objectMaterials) > 0 /\ found.ret = TRUE
                    IN  IF uploads /\ ~sink
                        THEN [frame EXCEPT !.crashed = TRUE]
                        ELSE [frame EXCEPT
                                 !.uniforms = ShaderMaterialUniforms(@, call.arg, material)]
               [] call.op = "Draw" ->
                    [frame EXCEPT
                        !.draws = Append(@, [mesh |-> call.arg, line |-> call.line,
                                             i |-> call.i,
                                             transforms |-> frame.transforms,
                                             uniforms |-> [key \in DrawUniformKeys |->
                                                              frame.uniforms[key]]]),
                        !.transforms = <<>>]

\* the calls first..last of the list in their order, on the frame so far
RECURSIVE RenderLoop(_, _, _, _, _)
RenderLoop(calls, first, last, frame, locals) ==
    IF first > last
    THEN frame
    ELSE IF first = last
         THEN RenderStep(frame, calls[first], locals)
         ELSE LET middle == (first + last) \div 2
                  sofar == RenderLoop(calls, first, middle, frame, locals)
              IN  IF sofar.crashed
                  THEN sofar
                  ELSE RenderLoop(calls, middle + 1, last, sofar, locals)

\* RenderScene(): the calls above in their order.  lastCall keeps the draws of
\* the frame, and those of the frame before when RenderScene was the last
\* operation called
RenderScene ==
    /\ ~crashed
    /\ \E locals \in [UnassignedMaterialLines -> UninitializedMaterials] :
          LET frame == RenderLoop(RenderSceneCalls, 1, Len(RenderSceneCalls),
                                  [uniforms |-> uniforms, crashed |-> FALSE,
                                   draws |-> <<>>, transforms |-> <<>>],
                                  locals)
          IN  /\ uniforms' = frame.uniforms
              /\ crashed' = frame.crashed
              /\ lastCall' =
                     IF lastCall.op = "RenderScene"
                     THEN Call("RenderScene", "again", lastCall.out, frame.draws)
                     ELSE Call("RenderScene", "first", <<>>, frame.draws)
    /\ SetterFrame

\* ------------------------------------------------------------------------
\* The scene: PrepareScene
\* ------------------------------------------------------------------------

\* a plausible slip: the sand image is registered under the tag of the plane
PrepareSceneTexturesPlaneTag ==
    << <<"textures/greyplastic.jpg", "plasticd_texture">>,
       <<"textures/greenplastic.jpg", "plasticc_texture">>,
       <<"textures/blueplastic.jpg", "plasticb_texture">>,
       <<"textures/Redplastic.jpg", "plastic_texture">>,
       <<"textures/sand.png", "plane_texture">>,
       <<"textures/brick.jpg", "brick_texture">>,
       <<"textures/whitecloth.jpg", "cloth_texture">> >>

\* the CreateGLTexture calls of PrepareScene, in their order
PrepareSceneTextures ==
    << <<"textures/greyplastic.jpg", "plasticd_texture">>,
       <<"textures/greenplastic.jpg", "plasticc_texture">>,
       <<"textures/blueplastic.jpg", "plasticb_texture">>,
       <<"textures/Redplastic.jpg", "plastic_texture">>,
       <<"textures/sand.png", "sand_texture">>,
       <<"textures/brick.jpg", "brick_texture">>,
       <<"textures/whitecloth.jpg", "cloth_texture">> >>

\* what stbi_load makes of the image files of the scene: they decode as RGB
\* images, but for at most one of them, which is missing (0 channels) or is a
\* greyscale image (1 channel)
SceneImage(filename, bad, channels) ==
    IF filename = bad
    THEN [image |-> channels > 0, colorChannels |-> channels]
    ELSE [image |-> TRUE, colorChannels |-> 3]

\* the image that is missing or greyscale, if one is
UnusableSceneImages == {"none", "textures/greyplastic.jpg", "textures/sand.png"}

\* CreateGLTexture on a registry given as a record, within the elements of
\* m_textureIDs
CreateGLTextureIn(registry, loaded, tag) ==
    IF ~loaded.image
    THEN registry
    ELSE IF SupportedChannels(loaded.colorChannels)
         THEN [registry EXCEPT
                  !.gen = @ + 1,
                  !.units = [@ EXCEPT ![registry.active] = 0],
                  !.ids = Append(@, [ID |-> registry.gen + 1, tag |-> tag]),
                  !.loaded = @ + 1,
                  !.successes = @ + 1]
         ELSE [registry EXCEPT
                  !.gen = @ + 1,
                  !.units = [@ EXCEPT ![registry.active] = registry.gen + 1],
                  !.live = @ + 1]

RECURSIVE PrepareSceneLoads(_, _, _, _)
PrepareSceneLoads(k, registry, bad, channels) ==
    IF k > Len(PrepareSceneTextures)
    THEN registry
    ELSE PrepareSceneLoads(k + 1,
             CreateGLTextureIn(registry,
                               SceneImage(PrepareSceneTextures[k][1], bad, channels),
                               PrepareSceneTextures[k][2]),
             bad, channels)

\* PrepareScene(): SetupSceneLights (which uses m_pShaderManager without a
\* test; its light uniforms are not kept here), DefineObjectMaterials, the
\* seven loads and BindGLTextures
PrepareScene ==
    /\ ~crashed
    /\ Len(m_objectMaterials) < MaxDefines * Len(DefinedMaterials)
    /\ m_loadedTextures + Len(PrepareSceneTextures) <= NumTextureUnits
    /\ IF NULL = m_pShaderManager
       THEN /\ crashed' = TRUE
            /\ lastCall' = Call("PrepareScene", "", 0, 0)
            /\ UNCHANGED <<m_textureIDs, m_loadedTextures, m_objectMaterials, glGenCount,
                           glTextureUnits, glActiveTexture, stbiLiveImages,
                           successfulLoads>>
       ELSE \E bad \in UnusableSceneImages, channels \in {0, 1} :
               LET loads == PrepareSceneLoads(1,
                                [ids |-> m_textureIDs, loaded |-> m_loadedTextures,
                                 gen |-> glGenCount, units |-> glTextureUnits,
                                 active |-> glActiveTexture, live |-> stbiLiveImages,
                                 successes |-> successfulLoads],
                                bad, channels)
                   bound == BindLoopOver(loads.ids, loads.loaded, 0, loads.units,
                                         loads.active, NumTextureUnits)
               IN  /\ m_objectMaterials' = m_objectMaterials \o DefinedMaterials
                   /\ m_textureIDs' = loads.ids
                   /\ m_loadedTextures' = loads.loaded
                   /\ glGenCount' = loads.gen
                   /\ stbiLiveImages' = loads.live
                   /\ successfulLoads' = loads.successes
                   /\ glTextureUnits' = bound.units
                   /\ glActiveTexture' = bound.active
                   /\ lastCall' = Call("PrepareScene", "",
                                       loads.successes - successfulLoads, bad)
                   /\ UNCHANGED crashed
    /\ UNCHANGED <<m_pShaderManager, uniforms, viewVars>>

\* ------------------------------------------------------------------------
\* Specifications of the scene composer
\* ------------------------------------------------------------------------

\* SceneManager(pShaderManager): no texture, no material, nothing uploaded
InitScene ==
    /\ m_pShaderManager \in {NULL, "ShaderManager"}
    /\ m_textureIDs = <<>>
    /\ m_loadedTextures = 0
    /\ m_objectMaterials = <<>>
    /\ uniforms = InitialUniforms
    /\ glGenCount = 0
    /\ glTextureUnits = [unit \in GLTextureUnits |-> 0]
    /\ glActiveTexture = 0
    /\ stbiLiveImages = 0
    /\ crashed = FALSE
    /\ lastCall = Call("SceneManager", "", 0, 0)
    /\ successfulLoads = 0

Init == InitScene /\ InitView

\* the registry: loading, binding, teardown and the lookups
NextRegistry ==
    \/ \E filename \in Files, tag \in TextureTags :
          LoadWithinBounds(filename, MaxTextures, MaxGen) /\ CreateGLTexture(filename, tag)
    \/ BindGLTextures
    \/ DestroyGLTextures
    \/ DefineObjectMaterials
    \/ \E tag \in TextureTags : CallFindTextureSlot(tag)
    \/ \E tag \in TextureTags : CallFindTextureID(tag)
    \/ \E tag \in MaterialTags : CallFindMaterial(tag)

SpecRegistry == Init /\ [][NextRegistry]_vars

\* the catalog filled up to its last element and past it, one RGBA image after
\* the other, with BindGLTextures and the lookup in between
NextCapacity ==
    \/ /\ LoadWithinBounds("textures/sand.png", MaxLoads, MaxLoads)
       /\ CreateGLTexture("textures/sand.png", "t")
    \/ BindGLTextures
    \/ CallFindTextureSlot("t")

SpecCapacity == Init /\ [][NextCapacity]_vars

\* the scene: PrepareScene and frames of RenderScene, with setter calls that
\* leave the sink in other states between them
SceneTextureTags == {"sand_texture", "plane_texture"}

NextScene ==
    \/ PrepareScene
    \/ RenderScene
    \/ SetShaderColor(<<54, 81, 94, 100>>)
    \/ \E textureTag \in SceneTextureTags : SetShaderTexture(textureTag)
    \/ SetTextureUVScale(<<30, 20>>)
    \/ \E materialTag \in MaterialTags : SetShaderMaterial(materialTag)
    \/ SetTransformations(<<2, 3, 5>>, 90, 0, 0, <<7, -2, 3>>)

SpecScene == Init /\ [][NextScene]_vars

\* the inputs of SetTransformations
Scales == {<<1, 1, 1>>, <<2, 3, 5>>, <<-1, 4, 2>>}

Degrees == {0, 90, 180, 270, -90}

Positions == {<<0, 0, 0>>, <<7, -2, 3>>}

\* the setters, on catalogs filled by the setup calls
SetupFiles == {"textures/missing.png", "textures/brick.jpg"}

Next ==
    \/ \E filename \in SetupFiles, tag \in TextureTags :
          LoadWithinBounds(filename, MaxTextures, MaxGen) /\ CreateGLTexture(filename, tag)
    \/ DefineObjectMaterials
    \/ \E currentColor \in Colors : SetShaderColor(currentColor)
    \/ \E textureTag \in TextureTags : SetShaderTexture(textureTag)
    \/ \E uv \in UVScales : SetTextureUVScale(uv)
    \/ \E materialTag \in MaterialTags : SetShaderMaterial(materialTag)
    \/ \E XrotationDegrees \in {0, 90} :
          SetTransformations(<<2, 3, 5>>, XrotationDegrees, 0, 0, <<7, -2, 3>>)

Spec == Init /\ [][Next]_vars

\* the transform pipeline over all its inputs
NextTransform ==
    /\ lastCall.op = "SceneManager"
    /\ \E scaleXYZ \in Scales, XrotationDegrees \in Degrees, YrotationDegrees \in Degrees,
          ZrotationDegrees \in Degrees, positionXYZ \in Positions :
           SetTransformations(scaleXYZ, XrotationDegrees, YrotationDegrees,
                              ZrotationDegrees, positionXYZ)

SpecTransform == Init /\ [][NextTransform]_vars


\* the view controller with a sink: frames, the clock and the input callbacks
InitViewController == Init /\ m_pShaderManager # NULL

NextView ==
    \/ \E pressed \in KeyCombos : PrepareSceneView(pressed)
    \/ Tick
    \/ Scroll_Callback(-100)
    \/ \E position \in MousePositions : Mouse_Position_Callback(position[1], position[2])

SpecView == InitViewController /\ [][NextView]_vars

\* the input callbacks over their inputs, with frames, the clock and the
\* destructor in between
NextInput ==
    \/ \E yoffset \in ScrollOffsets : Scroll_Callback(yoffset)
    \/ \E position \in CursorPositions : Mouse_Position_Callback(position[1], position[2])
    \/ \E pressed \in InputKeyCombos : PrepareSceneView(pressed)
    \/ Tick
    \/ DestroyViewManager

SpecInput == InitViewController /\ [][NextInput]_vars


\* ------------------------------------------------------------------------
\* Claims
\* ------------------------------------------------------------------------

HasSink == NULL # m_pShaderManager

\* the indexes, from 0, of the material entries with this tag
MaterialMatches(tag) ==
    {i \in 0..(Len(m_objectMaterials) - 1) : m_objectMaterials[i + 1].tag = tag}

\* the indexes, from 0, of the registered textures with this tag
TextureMatches(tag) ==
    {i \in 0..(m_loadedTextures - 1) : m_textureIDs[i + 1].tag = tag}

Least(S) == CHOOSE i \in S : \A j \in S : i <= j

\* C1: a SetShaderMaterial call with a tag that has no entry in the material
\* catalog (or with an empty catalog) leaves the three material uniforms as
\* they were before the call.
C1_MaterialMissKeepsMaterial ==
    [][(lastCall'.op = "SetShaderMaterial" /\ MaterialMatches(lastCall'.tag) = {})
          => \A k \in MaterialKeys : uniforms'[k] = uniforms[k]]_vars

\* C2: FindMaterial returns true exactly when some catalog entry has the tag,
\* and then the out parameter carries the diffuse colour, specular colour and
\* shininess of the first such entry; with no such entry it returns false.
C2_FindMaterialFoundIffPresent ==
    lastCall.op = "FindMaterial" =>
        LET matches == MaterialMatches(lastCall.tag)
        IN  /\ lastCall.ret = (matches # {})
            /\ matches # {} =>
                  LET first == m_objectMaterials[Least(matches) + 1]
                  IN  /\ lastCall.out.diffuseColor = first.diffuseColor
                      /\ lastCall.out.specularColor = first.specularColor
                      /\ lastCall.out.shininess = first.shininess

\* C3: FindTextureSlot returns the index of the earliest registered entry with
\* the tag and -1 when no registered entry has it; every successful load has
\* its own entry, so of two entries with one tag the lookup gives the first.
C3_FindTextureSlotFirstMatch ==
    /\ m_loadedTextures = Len(m_textureIDs)
    /\ \A tag \in TextureTags :
          FindTextureSlot(tag) =
              IF TextureMatches(tag) = {} THEN -1 ELSE Least(TextureMatches(tag))
    /\ lastCall.op = "FindTextureSlot" =>
          lastCall.ret =
              IF TextureMatches(lastCall.tag) = {}
              THEN -1 ELSE Least(TextureMatches(lastCall.tag))

\* C3 witness: two textures are registered under one tag and the lookup of
\* that tag has just returned slot 0.
C3_Witness ==
    /\ lastCall.op = "FindTextureSlot"
    /\ lastCall.ret = 0
    /\ TextureMatches(lastCall.tag) = {0, 1}

\* a file CreateGLTexture cannot register: it does not decode, or it decodes
\* to a channel count other than 3 or 4
BadImageFile(filename) ==
    \/ ~stbi_load(filename).image
    \/ stbi_load(filename).colorChannels \notin {3, 4}

\* C4: a CreateGLTexture call on a file that cannot be decoded or has a
\* channel count other than 3 or 4 returns false and leaves the entry count,
\* every entry and what FindTextureSlot and FindTextureID resolve unchanged.
C4_FailedLoadKeepsCatalog ==
    [][(lastCall'.op = "CreateGLTexture" /\ BadImageFile(lastCall'.out))
          => /\ lastCall'.ret = FALSE
             /\ m_loadedTextures' = m_loadedTextures
             /\ m_textureIDs' = m_textureIDs
             /\ \A tag \in TextureTags :
                   /\ FindTextureSlot(tag)' = FindTextureSlot(tag)
                   /\ FindTextureID(tag)' = FindTextureID(tag)]_vars

\* C4 witness: a two-channel image has just been refused while one texture is
\* registered.
C4_Witness ==
    /\ lastCall.op = "CreateGLTexture"
    /\ lastCall.ret = FALSE
    /\ stbi_load(lastCall.out).colorChannels = 2
    /\ m_loadedTextures = 1
    /\ FindTextureSlot(lastCall.tag) = -1

\* C5: with a sink, SetShaderColor leaves bUseTexture false, SetShaderTexture
\* leaves it true whether or not its tag resolves, and no other call changes
\* it: the flag is that of the later of the two.
C5_UseTextureFollowsLastColorOrTexture ==
    [][HasSink =>
          CASE lastCall'.op = "SetShaderColor" -> uniforms'[g_UseTextureName] = 0
            [] lastCall'.op = "SetShaderTexture" -> uniforms'[g_UseTextureName] = 1
            [] OTHER -> uniforms'[g_UseTextureName] = uniforms[g_UseTextureName]]_vars

\* C5 witness: SetShaderTexture with a tag that does not resolve raised the
\* flag, and a later SetShaderMaterial upload left it raised.
C5_Witness ==
    /\ HasSink
    /\ lastCall.op = "SetShaderMaterial"
    /\ lastCall.ret = TRUE
    /\ uniforms[g_UseTextureName] = 1
    /\ uniforms[g_TextureValueName] = -1


\* one call of a shader parameter setter with its arguments; material is what
\* the local OBJECT_MATERIAL of SetShaderMaterial holds before the lookup
SetterCall(op, tag, vec, material) ==
    [op |-> op, tag |-> tag, vec |-> vec, material |-> material]

NoMaterial == Material("", <<0, 0, 0>>, <<0, 0, 0>>, 0)

SetterCalls ==
    {SetterCall("SetShaderColor", "", c, NoMaterial) : c \in Colors}
    \cup {SetterCall("SetShaderTexture", t, <<>>, NoMaterial) : t \in TextureTags}
    \cup {SetterCall("SetTextureUVScale", "", uv, NoMaterial) : uv \in UVScales}
    \cup {SetterCall("SetShaderMaterial", t, <<>>, m) :
              t \in MaterialTags, m \in UninitializedMaterials}

\* the sink after the call, from the sink u before it
AfterSetter(call, u) ==
    CASE call.op = "SetShaderColor" -> ShaderColorUniforms(u, call.vec)
      [] call.op = "SetShaderTexture" -> ShaderTextureUniforms(u, call.tag)
      [] call.op = "SetTextureUVScale" -> TextureUVScaleUniforms(u, call.vec)
      [] call.op = "SetShaderMaterial" ->
            ShaderMaterialUniforms(u, call.tag, call.material)

ColorAndTexture(a, b) == {a.op, b.op} = {"SetShaderColor", "SetShaderTexture"}

C7_TextureUniformIsAUnit ==
    (HasSink /\ lastCall.op = "SetShaderTexture") =>
        uniforms[g_TextureValueName] \in 0..(NumTextureUnits - 1)

\* the rotations of a vector about the axes, by a whole multiple of 90 degrees
RotatedAboutX(v, degrees) ==
    <<v[1], Cos(degrees) * v[2] - Sin(degrees) * v[3],
      Sin(degrees) * v[2] + Cos(degrees) * v[3]>>

RotatedAboutY(v, degrees) ==
    <<Cos(degrees) * v[1] + Sin(degrees) * v[3], v[2],
      Cos(degrees) * v[3] - Sin(degrees) * v[1]>>

RotatedAboutZ(v, degrees) ==
    <<Cos(degrees) * v[1] - Sin(degrees) * v[2],
      Sin(degrees) * v[1] + Cos(degrees) * v[2], v[3]>>

Scaled(v, s) == <<s[1] * v[1], s[2] * v[2], s[3] * v[3]>>

TestPoints == {<<0, 0, 0>>, <<1, 0, 0>>, <<0, 1, 0>>, <<0, 0, 1>>, <<1, 2, 3>>}

\* C8: the matrix SetTransformations uploads under "model" maps a point v to
\* p + Rz(Ry(Rx(s * v))): scale, then the rotations about X, Y and Z in that
\* order, then the translation; the origin goes to p.
C8_ModelMatrixIsTRzRyRxS ==
    (HasSink /\ lastCall.op = "SetTransformations") =>
        LET scaleXYZ == lastCall.out[1]
            positionXYZ == lastCall.out[5]
        IN  /\ MatPoint(uniforms[g_ModelName], <<0, 0, 0>>) = positionXYZ
            /\ \A v \in TestPoints :
                  MatPoint(uniforms[g_ModelName], v) =
                      Vec3Add(positionXYZ,
                          RotatedAboutZ(
                              RotatedAboutY(
                                  RotatedAboutX(Scaled(v, scaleXYZ), lastCall.out[2]),
                                  lastCall.out[3]),
                              lastCall.out[4]))

\* C8 witness: an upload with an uneven scale, quarter turns about X and Z, a
\* half turn about Y and a translation.
C8_Witness ==
    /\ HasSink
    /\ lastCall.op = "SetTransformations"
    /\ lastCall.out = <<<<2, 3, 5>>, 90, 180, 270, <<7, -2, 3>>>>
    /\ uniforms[g_ModelName] # ZeroMat4

MovementKeys == {"W", "S", "A", "D", "Q", "E"}

CanonicalOrientation ==
    /\ camera.Front = <<0, 0, -1000>>
    /\ camera.Up = <<0, 1000, 0>>
    /\ camera.Yaw = -90
    /\ camera.Pitch = 0

FrameWith(key) == lastCall.op = "PrepareSceneView" /\ key \in lastCall.out

\* C9 as stated: at the end of a frame in which O is pressed the orthographic
\* flag is set and the camera has position (0,0,10), front (0,0,-1), up
\* (0,1,0), yaw -90 and pitch 0.
C9_OrthoFrameEndsCanonical ==
    (FrameWith("O") /\ g_pCamera # NULL) =>
        /\ bOrthographicProjection
        /\ camera.Position = <<0, 0, 10000>>
        /\ CanonicalOrientation

\* C9 amended: at the end of a frame in which O is pressed the orthographic
\* flag is set and front, up, yaw and pitch are (0,0,-1), (0,1,0), -90 and 0;
\* the position is (0,0,10) when no movement key is pressed in that frame or
\* the frame's elapsed time is zero, otherwise the movement keys of the frame
\* displace it from (0,0,10).
C9_OrthoFrameSnapsThenMoves ==
    (FrameWith("O") /\ g_pCamera # NULL) =>
        /\ bOrthographicProjection
        /\ CanonicalOrientation
        /\ (lastCall.out \cap MovementKeys = {} \/ gDeltaTime = 0) =>
              camera.Position = <<0, 0, 10000>>
        /\ (lastCall.out = {"O", "Q"}) =>
              camera.Position =
                  <<0, 1000 * camera.MovementSpeed * gDeltaTime, 10000>>

\* C9 witness: O was pressed alone in a frame with time elapsed, after the
\* mouse had turned the camera.
C9_Witness ==
    /\ lastCall.op = "PrepareSceneView"
    /\ lastCall.out = {"O"}
    /\ g_pCamera # NULL
    /\ gDeltaTime > 0
    /\ ~gFirstMouse
    /\ gLastX # WINDOW_WIDTH \div 2
    /\ camera.Right # <<1000, 0, 0>>

\* C10: a frame in which P is the only key pressed clears the orthographic
\* flag and leaves position, front, up, yaw, pitch, zoom and movement speed
\* as they were.
C10_PerspectiveKeepsPose ==
    [][(lastCall'.op = "PrepareSceneView" /\ lastCall'.out = {"P"} /\ g_pCamera # NULL)
          => /\ ~bOrthographicProjection'
             /\ camera' = camera]_vars

\* C10 witness: P alone in a frame with time elapsed, with the camera still
\* where an earlier switch to orthographic put it.
C10_Witness ==
    /\ lastCall.op = "PrepareSceneView"
    /\ lastCall.out = {"P"}
    /\ gDeltaTime > 0
    /\ ~bOrthographicProjection
    /\ camera.Position = <<0, 0, 10000>>
    /\ camera.Front = <<0, 0, -1000>>

\* ------------------------------------------------------------------------
\* The input callbacks and the frame
\* ------------------------------------------------------------------------

Min(a, b) == IF a < b THEN a ELSE b

Max(a, b) == IF a > b THEN a ELSE b

\* a step of the named operation (the clock is the one step that leaves
\* lastCall as it was)
StepOf(op) == lastCall'.op = op /\ glfwTime' = glfwTime

\* C11: a scroll event sets movementSpeed to clamp(movementSpeed + yoffset,
\* 1, 50), from 10 to 50 with +100 and to 1 with -100; no other operation
\* writes the speed, which is within [1, 50] in every reachable state; a scroll
\* event with no camera changes nothing.
C11_MovementSpeedClamped ==
    /\ [](camera.MovementSpeed \in 1..50)
    /\ [][/\ (StepOf("Scroll_Callback") /\ g_pCamera # NULL) =>
               /\ camera'.MovementSpeed =
                      Max(1, Min(50, camera.MovementSpeed + lastCall'.out))
               /\ (camera.MovementSpeed = 10 /\ lastCall'.out = 100) =>
                      camera'.MovementSpeed = 50
               /\ (camera.MovementSpeed = 10 /\ lastCall'.out = -100) =>
                      camera'.MovementSpeed = 1
               /\ camera' = [camera EXCEPT !.MovementSpeed = camera'.MovementSpeed]
          /\ (StepOf("Scroll_Callback") /\ g_pCamera = NULL) =>
               UNCHANGED <<viewVars, m_pShaderManager, m_textureIDs, m_loadedTextures,
                           m_objectMaterials, uniforms, glGenCount, glTextureUnits,
                           glActiveTexture, stbiLiveImages, crashed>>
          /\ ~StepOf("Scroll_Callback") => camera'.MovementSpeed = camera.MovementSpeed
         ]_vars

\* C11 witness: the speed went from another value up to the upper end on a
\* scroll of +100 with the camera present
C11_Witness ==
    /\ lastCall.op = "Scroll_Callback"
    /\ lastCall.out = 100
    /\ g_pCamera # NULL
    /\ camera.MovementSpeed = 50
    /\ viewHistory.firstMouse # NULL

\* C12: the first mouse-move event passes the offsets (0, 0) to the camera
\* whatever its coordinates are and records those coordinates as the reference
\* position; the first-event flag is cleared by that event and never set
\* again.
C12_FirstMouseEventLatches ==
    /\ [](gFirstMouse <=> viewHistory.firstMouse = NULL)
    /\ [][/\ (StepOf("Mouse_Position_Callback") /\ viewHistory.firstMouse = NULL) =>
               /\ lastCall'.out = <<0, 0>>
               /\ <<gLastX', gLastY'>> = viewHistory'.firstMouse
               /\ g_pCamera # NULL =>
                      camera'.Yaw = camera.Yaw /\ camera'.Pitch = camera.Pitch
          /\ ~gFirstMouse => ~gFirstMouse'
         ]_vars

\* C12 witness: the first event came at a position away from the middle of
\* the window and turned the camera by nothing
C12_Witness ==
    /\ lastCall.op = "Mouse_Position_Callback"
    /\ viewHistory.firstMouse = <<1400, 2180>>
    /\ viewHistory.lastMouse = viewHistory.firstMouse
    /\ <<gLastX, gLastY>> = <<1400, 2180>>
    /\ viewHistory.offsetSum = <<0, 0>>
    /\ camera.Yaw = -90 /\ camera.Pitch = 0
    /\ ~gFirstMouse

\* C13: for every mouse-move event after the first, dx = x - lastX and
\* dy = lastY - y with (lastX, lastY) the coordinates of the event before;
\* after every event the reference is that event's coordinates; over the
\* events so far the dx sum to (last x - first x) and the dy to
\* (first y - last y).
C13_MouseOffsetsTelescope ==
    /\ [](viewHistory.lastMouse # NULL =>
            /\ <<gLastX, gLastY>> = viewHistory.lastMouse
            /\ viewHistory.offsetSum =
                   <<viewHistory.lastMouse[1] - viewHistory.firstMouse[1],
                     viewHistory.firstMouse[2] - viewHistory.lastMouse[2]>>)
    /\ [][(StepOf("Mouse_Position_Callback") /\ viewHistory.lastMouse # NULL) =>
              lastCall'.out = <<viewHistory'.lastMouse[1] - viewHistory.lastMouse[1],
                                viewHistory.lastMouse[2] - viewHistory'.lastMouse[2]>>
         ]_vars

\* C13 witness: after a first event and later ones the cursor is down and to
\* the right of where it began, and the last event moved it
C13_Witness ==
    /\ lastCall.op = "Mouse_Position_Callback"
    /\ viewHistory.firstMouse = <<500, 400>>
    /\ viewHistory.lastMouse = <<2300, 1290>>
    /\ lastCall.out = <<900, 890>>
    /\ viewHistory.offsetSum = <<1800, -890>>

\* C14: the elapsed time computed by the first PrepareSceneView call is zero
\* however long the program has run before it, so the movement keys held in
\* the first frame move the camera by nothing; on every later call the elapsed
\* time is the clock reading minus the reading of the call before.
C14_FirstFrameElapsedIsZero ==
    [][StepOf("PrepareSceneView") =>
          IF viewHistory.previousFrameTime = -1
          THEN /\ gDeltaTime' = 0
               /\ "O" \notin lastCall'.out => camera'.Position = camera.Position
          ELSE gDeltaTime' = glfwTime - viewHistory.previousFrameTime
      ]_vars

Held(key, pressed) == IF key \in pressed THEN 1 ELSE 0

\* the position a frame starts its movement from
MovementBase(pressed) == IF "O" \in pressed THEN <<0, 0, 10000>> ELSE camera.Position

C16_FrameStepsInOrder ==
    [][(StepOf("PrepareSceneView") /\ g_pCamera # NULL /\ HasSink) =>
          LET pressed == lastCall'.out
          IN  /\ gDeltaTime' = glfwTime - gLastFrame
              /\ gLastFrame' = glfwTime
              /\ pressed = {"Q"} =>
                     camera'.Position[2] - camera.Position[2] =
                         camera.Up[2] * camera.MovementSpeed * (glfwTime - gLastFrame)
              /\ uniforms'[g_ViewName].kind = "lookAt"
              /\ uniforms'[g_ViewName].eye = camera'.Position
              /\ uniforms'[g_ViewName].center = Vec3Add(camera'.Position, camera'.Front)
              /\ uniforms'[g_ViewName].up = camera'.Up
              /\ uniforms'["viewPosition"] = camera'.Position
              /\ (uniforms'[g_ProjectionName].kind = "ortho") <=> bOrthographicProjection'
              /\ uniforms'[g_ProjectionName].kind \in {"ortho", "perspective"}
              /\ "O" \in pressed => uniforms'[g_ProjectionName].kind = "ortho"
              /\ ("P" \in pressed /\ "O" \notin pressed) =>
                     uniforms'[g_ProjectionName].kind = "perspective"
      ]_vars

\* C16 witness: a frame of one second with O and Q held pushed the
\* orthographic projection and the camera as snapped and then moved
C16_Witness ==
    /\ lastCall.op = "PrepareSceneView"
    /\ lastCall.out = {"O", "Q"}
    /\ gDeltaTime = 1
    /\ HasSink
    /\ uniforms[g_ProjectionName].kind = "ortho"
    /\ uniforms["viewPosition"] = <<0, 10000, 10000>>
    /\ uniforms[g_ViewName].eye = <<0, 10000, 10000>>

\* ------------------------------------------------------------------------
\* The texture catalog
\* ------------------------------------------------------------------------

\* C17: the k-th successful CreateGLTexture call, from 0 and without the
\* failed ones, registers its texture at slot k, and BindGLTextures binds the
\* texture of slot i to texture unit i for every registered i from unit 0; so
\* 't' loaded into an empty registry is found at slot 0 and 'u' loaded next at
\* slot 1.
C17_SlotsInLoadOrder ==
    /\ [](/\ m_loadedTextures = successfulLoads
          /\ Len(m_textureIDs) = m_loadedTextures
          /\ (m_loadedTextures >= 1 /\ m_textureIDs[1].tag = "t") =>
                 FindTextureSlot("t") = 0
          /\ (m_loadedTextures >= 2 /\ m_textureIDs[1].tag = "t"
                 /\ m_textureIDs[2].tag = "u") => FindTextureSlot("u") = 1)
    /\ [][/\ (StepOf("CreateGLTexture") /\ lastCall'.ret = TRUE) =>
               /\ successfulLoads' = successfulLoads + 1
               /\ m_textureIDs'[successfulLoads + 1].tag = lastCall'.tag
               /\ m_textureIDs'[successfulLoads + 1].ID = glGenCount'
               /\ \A i \in 1..successfulLoads : m_textureIDs'[i] = m_textureIDs[i]
          /\ (StepOf("CreateGLTexture") /\ lastCall'.ret = FALSE) =>
               UNCHANGED <<successfulLoads, m_textureIDs, m_loadedTextures>>
          /\ StepOf("BindGLTextures") =>
               \A unit \in DOMAIN glTextureUnits :
                   glTextureUnits'[unit] =
                       IF unit < m_loadedTextures
                       THEN m_textureIDs[unit + 1].ID
                       ELSE glTextureUnits[unit]
         ]_vars

\* C17 witness: 't' and 'u' were loaded in this order with a failed load on
\* the way, and BindGLTextures has bound them to units 0 and 1
C17_Witness ==
    /\ lastCall.op = "BindGLTextures"
    /\ successfulLoads = 2
    /\ glGenCount = 3
    /\ m_textureIDs[1].tag = "t" /\ m_textureIDs[2].tag = "u"
    /\ FindTextureSlot("t") = 0 /\ FindTextureSlot("u") = 1
    /\ glTextureUnits[0] = m_textureIDs[1].ID
    /\ glTextureUnits[1] = m_textureIDs[2].ID
    /\ m_textureIDs[2].ID = 3

\* the slots, from 0, of the entries registered past the sixteenth
SlotsPastCeiling == {i \in 0..(m_loadedTextures - 1) : i >= NumTextureUnits}

\* C18: for any number of registered textures BindGLTextures binds only to the
\* texture units 0..15, and the entries registered past the sixteenth are
\* bound to no unit.
C18_BinderHonoursCeiling ==
    [][StepOf("BindGLTextures") =>
          /\ \A unit \in DOMAIN glTextureUnits :
                 unit >= NumTextureUnits => glTextureUnits'[unit] = glTextureUnits[unit]
          /\ \A i \in SlotsPastCeiling, unit \in DOMAIN glTextureUnits :
                 glTextureUnits'[unit] # m_textureIDs[i + 1].ID
          /\ glActiveTexture' < NumTextureUnits
      ]_vars

\* C19: the catalog never holds more than 16 entries, and a CreateGLTexture
\* call made with 16 textures registered returns false and leaves the catalog
\* as it was.
C19_CatalogCappedAtSixteen ==
    /\ [](m_loadedTextures <= NumTextureUnits /\ Len(m_textureIDs) <= NumTextureUnits)
    /\ [][(StepOf("CreateGLTexture") /\ m_loadedTextures = NumTextureUnits) =>
              /\ lastCall'.ret = FALSE
              /\ UNCHANGED <<m_textureIDs, m_loadedTextures>>
         ]_vars

\* C20: the catalog is append-only: whatever is called, every entry keeps the
\* tag and the GPU identifier it was registered with, and the entry count
\* never goes down.
C20_CatalogAppendOnly ==
    [][/\ m_loadedTextures' >= m_loadedTextures
       /\ Len(m_textureIDs') >= Len(m_textureIDs)
       /\ \A i \in 1..Len(m_textureIDs) :
              /\ m_textureIDs'[i].tag = m_textureIDs[i].tag
              /\ m_textureIDs'[i].ID = m_textureIDs[i].ID
      ]_vars

\* C21: after DestroyGLTextures every GPU texture object a successful
\* CreateGLTexture call created has been released, and the teardown has
\* allocated no new GPU texture object.
C21_TeardownReleasesEveryTexture ==
    [][StepOf("DestroyGLTextures") =>
          /\ glGenCount' = glGenCount
          /\ \A i \in 1..m_loadedTextures : m_textureIDs[i].ID \in glDeletedTextures
      ]_vars

\* C24: whenever FindTextureSlot(tag) returns a unit k >= 0, texture unit k
\* has bound the texture identifier stored in catalog entry k, in every state
\* reachable by CreateGLTexture, BindGLTextures and DestroyGLTextures calls.
C24_FoundSlotIsBound ==
    \A tag \in TextureTags :
        LET k == FindTextureSlot(tag)
        IN  k >= 0 => glTextureUnits[k] = m_textureIDs[k + 1].ID

\* C26: with the global camera pointer null, Scroll_Callback,
\* Mouse_Position_Callback and ProcessKeyboardEvents return without reading or
\* writing camera state: no step dereferences an absent camera.
C26_NoNullCameraDereference ==
    [][g_pCamera = NULL => (~crashed' /\ camera' = camera)]_vars

\* C27: with a null sink every setter (SetTransformations, SetShaderColor,
\* SetShaderTexture, SetTextureUVScale, SetShaderMaterial, for any tag and
\* catalog) returns without using the sink.
C27_SettersNoOpWithoutSink ==
    [][NULL = m_pShaderManager => (~crashed' /\ uniforms' = uniforms)]_vars

\* C28: on every return path of CreateGLTexture the decoded image has been
\* freed and GL_TEXTURE_2D is left unbound, and a call that returns false
\* leaves no GPU texture object allocated that the catalog does not record.
C28_CreateReleasesOnEveryPath ==
    [][StepOf("CreateGLTexture") =>
          /\ stbiLiveImages' = stbiLiveImages
          /\ glTextureUnits'[glActiveTexture'] = 0
          /\ lastCall'.ret = FALSE => glGenCount' = glGenCount
      ]_vars

\* ------------------------------------------------------------------------
\* The frames of RenderScene
\* ------------------------------------------------------------------------

\* the draws of the frame RenderScene has just made
FrameDrawn == lastCall.op = "RenderScene" /\ ~crashed

\* C22: in RenderScene every draw call has exactly one SetTransformations
\* call between it and the draw call before it, that call is the draw's own
\* (no earlier draw was made after the same call, in or out of the arc loops),
\* and no setter is left after the last draw call: each is issued before a
\* draw call
C22_OneUploadBeforeEachDraw ==
    FrameDrawn =>
        /\ \A k \in DOMAIN lastCall.out :
              /\ Len(lastCall.out[k].transforms) = 1
              /\ lastCall.out[k].transforms[1] =
                     <<lastCall.out[k].transforms[1][1], lastCall.out[k].i>>
              /\ \A j \in 1..(k - 1) :
                     lastCall.out[j].transforms # lastCall.out[k].transforms
        /\ RenderSceneCalls[Len(RenderSceneCalls)].op = "Draw"
        /\ Len(lastCall.out) =
               Cardinality({k \in DOMAIN RenderSceneCalls : RenderSceneCalls[k].op = "Draw"})

\* a frame was drawn whose arc loops ran to their last pass, i = numSpheres
C22_Witness ==
    /\ FrameDrawn
    /\ \E k \in DOMAIN lastCall.out :
          /\ lastCall.out[k].i = numSpheres
          /\ lastCall.out[k].transforms = <<(<<889, numSpheres>>)>>
    /\ \E k \in DOMAIN lastCall.out :
          /\ lastCall.out[k].i = numSpheresFl
          /\ lastCall.out[k].line = 969

\* PrepareScene has run once and each of its seven loads registered a texture
SevenLoadsSucceeded ==
    /\ successfulLoads = Len(PrepareSceneTextures)
    /\ m_loadedTextures = Len(PrepareSceneTextures)

\* C23: after a PrepareScene whose seven loads succeeded, at every draw call
\* of RenderScene with bUseTexture 1 the objectTexture uploaded last is a slot
\* 0..6 whose texture is registered and is bound to the unit of that number;
\* it is never -1
C23_TexturedDrawsUseBoundSlot ==
    (FrameDrawn /\ HasSink /\ SevenLoadsSucceeded) =>
        \A k \in DOMAIN lastCall.out :
            lastCall.out[k].uniforms[g_UseTextureName] = 1 =>
                LET slot == lastCall.out[k].uniforms[g_TextureValueName]
                IN  /\ slot \in 0..6
                    /\ slot < m_loadedTextures
                    /\ m_textureIDs[slot + 1].ID # 0
                    /\ glTextureUnits[slot] = m_textureIDs[slot + 1].ID

\* a frame drawn after seven good loads, the first plane with the sand
\* texture of slot 4, the last sphere with the texture of slot 2
C23_Witness ==
    /\ FrameDrawn
    /\ HasSink
    /\ SevenLoadsSucceeded
    /\ lastCall.out[1].uniforms[g_UseTextureName] = 1
    /\ lastCall.out[1].uniforms[g_TextureValueName] = 4
    /\ lastCall.out[Len(lastCall.out)].uniforms[g_TextureValueName] = 2

\* the draws of a frame entered with the sink as it is after linking and
\* with SetShaderMaterial's never-assigned locals all zero
FrameFromFreshSink ==
    RenderLoop(RenderSceneCalls, 1, Len(RenderSceneCalls),
               [uniforms |-> IF HasSink THEN InitialUniforms ELSE uniforms,
                crashed |-> FALSE, draws |-> <<>>, transforms |-> <<>>],
               [line \in UnassignedMaterialLines |->
                   Material("", <<0, 0, 0>>, <<0, 0, 0>>, 0)]).draws

\* C25: whatever the sink holds when RenderScene is entered, and whatever its
\* never-assigned locals hold, the draw calls of the frame and the values of
\* model, objectColor, bUseTexture, objectTexture, UVscale and the material
\* uniforms at each are those of a frame entered with a fresh sink; the
\* frame that follows a frame makes the same draws with the same values
C25_FramesIndependentOfSink ==
    [][(StepOf("RenderScene") /\ ~crashed') =>
          /\ lastCall'.out = FrameFromFreshSink
          /\ lastCall'.tag = "again" => lastCall'.ret = lastCall'.out
      ]_vars

\* a second frame right after a first, with a sink, both catalogs filled
C25_Witness ==
    /\ FrameDrawn
    /\ HasSink
    /\ lastCall.tag = "again"
    /\ Len(m_objectMaterials) > 0
    /\ m_loadedTextures > 0
    /\ Len(lastCall.out) > 0
    /\ lastCall.ret = lastCall.out

====
